---- MODULE Spec2Model ----
(***************************************************************************)
(* django-clsview: class-based views whose instantiation runs the request  *)
(* cycle (View.__new__ / View._new / View._decorate / View.__init__ /      *)
(* View.__call__) and method_decorator, modelled as a small-step machine   *)
(* over Python calls.  Each thread evaluates one Python expression at a    *)
(* time; every action is one function body of src/src/djclsview.py up to   *)
(* the next call it makes or the next attribute it reads or writes.        *)
(***************************************************************************)
EXTENDS Naturals, Sequences, FiniteSets, TLC

VARIABLES
    classes,    \* the class objects: View, the user's subclasses, those _decorate made
    decorated,  \* history: the _decorate calls made so far and what each returned
    heap,       \* the instances object.__new__ has allocated
    pc,         \* per thread: the function body it is in
    frame,      \* per thread: the arguments and locals of that function
    trace       \* per thread: history of the bodies entered by the current evaluation

vars == <<classes, decorated, heap, pc, frame, trace>>

-----------------------------------------------------------------------------
(* Bounds *)

MaxDecorators == 2      \* decorators given to one _decorate call
MaxStacked == 1         \* @method_decorator(d) lines stacked on meth
MaxClasses == 5         \* class objects alive at once
MaxInt == 2             \* integer arguments are 1..MaxInt

Threads == {1, 2}
MainThread == 1

-----------------------------------------------------------------------------
(* Python values *)

Req(a)  == [t |-> "req", v |-> a]   \* a request, a dict {'authenticated': a = 1}
Int(i)  == [t |-> "int", v |-> i]
Cls(c)  == [t |-> "cls", v |-> c]   \* a class object, classes[c]
Obj(o)  == [t |-> "obj", v |-> o]   \* an instance: heap[o], or 0 for Z() of the doctest

Requests  == {Req(0), Req(1), Int(1)}
ArgLists  == {<<>>, <<Int(2)>>}
KwargsSet == {{}, {<<"kwarg", 1>>}}
Ints      == {Int(i) : i \in 1..MaxInt}

Decorators == {"decorator", "auth_required", "mult_2"}

RECURSIVE SeqsUpTo(_, _)
SeqsUpTo(S, n) ==
    IF n = 0 THEN {<<>>}
    ELSE LET shorter == SeqsUpTo(S, n - 1)
         IN  shorter \cup {<<x>> \o s : x \in S, s \in {q \in shorter : Len(q) = n - 1}}

DecoratorLists == SeqsUpTo(Decorators, MaxDecorators) \ {<<>>}

Reverse(s) == [i \in 1..Len(s) |-> s[Len(s) + 1 - i]]

-----------------------------------------------------------------------------
(* Callables.  Every function this module builds is a base function under  *)
(* a stack of methodwrapper closures, outermost first.                     *)

Function(name) == [wrappers |-> <<>>, base |-> name]
Inherited == Function("inherit")

\* method_decorator(decorator)(method): the methodwrapper closure over both
method_decorator(decorator, method) ==
    [wrappers |-> <<decorator>> \o method.wrappers, base |-> method.base]

\* the body of methodwrapper(self, *args, **kwargs):
\*     decorator(partial(method, self))(*args, **kwargs)
\* as the call it makes: which wrapper, over which partial, with which arguments
methodwrapper_passes_self(fn, pos, kw) ==
    [decorator |-> Head(fn.wrappers),
     func      |-> [wrappers |-> Tail(fn.wrappers), base |-> fn.base],
     bound     |-> <<>>,
     pos       |-> pos,
     kw        |-> kw]

methodwrapper(fn, pos, kw) ==
    [decorator |-> Head(fn.wrappers),
     func      |-> [wrappers |-> Tail(fn.wrappers), base |-> fn.base],
     bound     |-> <<Head(pos)>>,
     pos       |-> Tail(pos),
     kw        |-> kw]

\* partial(func, *bound)(*args, **kwargs) calls func(*(bound + args), **kwargs)
partial(bound, pos) == bound \o pos

-----------------------------------------------------------------------------
(* The decorators of the doctests, each as what its wrapper does with the  *)
(* arguments it receives: raise, or call func with these arguments.        *)

Raise(e)       == [exc |-> e, pos |-> <<>>, kw |-> {}]
CallFunc(p, k) == [exc |-> "", pos |-> p, kw |-> k]

Times2(x) == Int(x.v * 2)

wrapper(d, pos, kw) ==
    CASE d = "decorator" -> CallFunc(pos, kw)
      [] d = "auth_required" ->
            IF pos = <<>> THEN Raise("TypeError")
            ELSE IF pos[1].t # "req" THEN Raise("TypeError")
            ELSE IF pos[1].v # 1 THEN Raise("AssertionError")
            ELSE CallFunc(pos, kw)
      [] d = "mult_2" ->
            IF Len(pos) # 2 \/ kw # {} THEN Raise("TypeError")
            ELSE IF pos[1].t # "int" \/ pos[2].t # "int" THEN Raise("TypeError")
            ELSE CallFunc(<<Times2(pos[1]), Times2(pos[2])>>, kw)

-----------------------------------------------------------------------------
(* Classes *)

ViewClass == 1
View == [parent |-> 0, new |-> Function("View.__new__"),
         init |-> "View.__init__", call |-> "View.__call__"]
\* class MyView(View): def __call__(self): ... self.request, self.args, self.kwargs
MyView == [parent |-> ViewClass, new |-> Inherited,
           init |-> "inherit", call |-> "MyView.__call__"]
\* a subclass overriding __init__ to refuse a request before storing it
StrictView == [parent |-> ViewClass, new |-> Inherited,
               init |-> "StrictView.__init__", call |-> "MyView.__call__"]

RECURSIVE Lookup(_, _, _)
Lookup(table, c, attr) ==
    IF attr = "new"
    THEN IF table[c].new.base # "inherit" THEN table[c].new
         ELSE Lookup(table, table[c].parent, attr)
    ELSE IF table[c][attr] # "inherit" THEN table[c][attr]
         ELSE Lookup(table, table[c].parent, attr)

RECURSIVE decorate_loop(_, _, _)
decorate_loop(table, cls, ds) ==
    IF ds = <<>> THEN [table |-> table, cls |-> cls]
    ELSE decorate_loop(
            Append(table, [parent |-> cls,
                           new    |-> method_decorator(ds[1], Lookup(table, cls, "new")),
                           init   |-> "inherit",
                           call   |-> "inherit"]),
            Len(table) + 1,
            Tail(ds))

_decorate_in_order(table, cls, decorators) == decorate_loop(table, cls, decorators)

_decorate(table, cls, decorators) == decorate_loop(table, cls, Reverse(decorators))

-----------------------------------------------------------------------------
(* Instances *)

Slots == 1..Cardinality(Threads)

NoValue == [t |-> "none", v |-> 0]
Free == [live |-> FALSE, cls |-> 0, has |-> {},
         request |-> NoValue, args |-> <<>>, kwargs |-> {}]

FreshSlot(h) == CHOOSE o \in Slots : ~h[o].live /\ \A p \in Slots : p < o => h[p].live

\* object.__new__(cls): the heap with the new object, and the object
object_new_shared(h, cls) ==
    IF \E o \in Slots : h[o].live /\ h[o].cls = cls
    THEN [heap |-> h, obj |-> CHOOSE o \in Slots : h[o].live /\ h[o].cls = cls]
    ELSE [heap |-> [h EXCEPT ![FreshSlot(h)] = [Free EXCEPT !.live = TRUE, !.cls = cls]],
          obj  |-> FreshSlot(h)]

object_new(h, cls) ==
    [heap |-> [h EXCEPT ![FreshSlot(h)] = [Free EXCEPT !.live = TRUE, !.cls = cls]],
     obj  |-> FreshSlot(h)]

-----------------------------------------------------------------------------
(* Threads *)

NoResult == [kind |-> "none", obj |-> 0, request |-> NoValue, args |-> <<>>, kwargs |-> {}]

Idle == [op |-> "", cls |-> 0, fn |-> Inherited, decorator |-> "", bound |-> <<>>,
         pos |-> <<>>, kw |-> {}, cls_arg |-> 0, inst |-> 0, ret |-> NoResult,
         exc |-> "", in_fn |-> Inherited, in_pos |-> <<>>, in_kw |-> {}]

Event(e, name, pos, kw) == [ev |-> e, name |-> name, pos |-> pos, kw |-> kw]

\* the body a call of fn starts in
Enter(fn) == IF fn.wrappers # <<>> THEN "methodwrapper" ELSE fn.base

Init ==
    /\ classes = <<View, MyView, StrictView>>
    /\ decorated = {}
    /\ heap = [o \in Slots |-> Free]
    /\ pc = [t \in Threads |-> "idle"]
    /\ frame = [t \in Threads |-> Idle]
    /\ trace = [t \in Threads |-> <<>>]

Goto(t, label)   == pc' = [pc EXCEPT ![t] = label]
Log(t, event)    == trace' = [trace EXCEPT ![t] = Append(@, event)]
RaiseIn(t, e)    == /\ pc' = [pc EXCEPT ![t] = "raised"]
                    /\ frame' = [frame EXCEPT ![t].exc = e]

\* @d1 @d2 ... stacked on a method, each through method_decorator
RECURSIVE Stacked(_, _)
Stacked(ds, method) ==
    IF ds = <<>> THEN method
    ELSE method_decorator(ds[1], Stacked(Tail(ds), method))

-----------------------------------------------------------------------------
(* What a caller evaluates *)

\* ViewClass(request, *args, **kwargs): type.__call__ looks __new__ up on the
\* class and calls it with the class first
Invoke(t) ==
    /\ pc[t] = "idle"
    /\ \E c \in DOMAIN classes, request \in Requests, args \in ArgLists, kwargs \in KwargsSet :
          LET fn == Lookup(classes, c, "new") IN
          /\ Goto(t, Enter(fn))
          /\ frame' = [frame EXCEPT ![t] =
                [Idle EXCEPT !.op = "call", !.cls = c, !.fn = fn, !.in_fn = fn,
                             !.pos = <<Cls(c), request>> \o args, !.kw = kwargs,
                             !.in_pos = <<request>> \o args, !.in_kw = kwargs]]
    /\ UNCHANGED <<classes, decorated, heap, trace>>

\* ViewClass._new(request, *args, **kwargs), called directly
InvokeNew(t) ==
    /\ pc[t] = "idle"
    /\ \E c \in DOMAIN classes, request \in Requests, args \in ArgLists, kwargs \in KwargsSet :
          /\ Goto(t, "View._new")
          /\ frame' = [frame EXCEPT ![t] =
                [Idle EXCEPT !.op = "_new", !.cls = c, !.cls_arg = c,
                             !.pos = <<request>> \o args, !.kw = kwargs,
                             !.in_pos = <<request>> \o args, !.in_kw = kwargs]]
    /\ UNCHANGED <<classes, decorated, heap, trace>>

\* Z().meth(a, b), meth defined under a stack of @method_decorator(d)
InvokeMeth(t) ==
    /\ pc[t] = "idle"
    /\ \E ds \in SeqsUpTo(Decorators, MaxStacked), a \in Ints, b \in Ints :
          LET fn == Stacked(ds, Function("meth")) IN
          /\ Goto(t, Enter(fn))
          /\ frame' = [frame EXCEPT ![t] =
                [Idle EXCEPT !.op = "meth", !.fn = fn, !.in_fn = fn,
                             !.pos = <<Obj(0), a, b>>,
                             !.in_pos = <<a, b>>]]
    /\ UNCHANGED <<classes, decorated, heap, trace>>

\* ViewClass._decorate(*decorators)
Decorate(t) ==
    /\ pc[t] = "idle"
    /\ \E c \in DOMAIN classes, ds \in DecoratorLists :
          /\ Len(classes) + Len(ds) <= MaxClasses
          /\ LET r == _decorate(classes, c, ds) IN
                /\ classes' = r.table
                /\ decorated' = decorated \cup
                      {[of |-> c, decorators |-> ds, result |-> r.cls]}
    /\ UNCHANGED <<heap, pc, frame, trace>>

-----------------------------------------------------------------------------
(* method_decorator *)

\* methodwrapper(self, *args, **kwargs) builds the partial, decorates it and
\* calls the wrapper it gets
call_methodwrapper(t) ==
    /\ pc[t] = "methodwrapper"
    /\ LET f == frame[t]
           m == methodwrapper(f.fn, f.pos, f.kw) IN
          /\ Log(t, Event("methodwrapper", m.decorator, f.pos, f.kw))
          /\ Goto(t, "wrapper")
          /\ frame' = [frame EXCEPT ![t].decorator = m.decorator, ![t].fn = m.func,
                                    ![t].bound = m.bound, ![t].pos = m.pos,
                                    ![t].kw = m.kw]
    /\ UNCHANGED <<classes, decorated, heap>>

\* the wrapper the decorator returned runs, and calls the partial or raises
call_wrapper(t) ==
    /\ pc[t] = "wrapper"
    /\ LET f == frame[t]
           w == wrapper(f.decorator, f.pos, f.kw) IN
          /\ Log(t, Event("wrapper", f.decorator, f.pos, f.kw))
          /\ IF w.exc # ""
             THEN RaiseIn(t, w.exc)
             ELSE /\ Goto(t, Enter(f.fn))
                  /\ frame' = [frame EXCEPT ![t].pos = partial(f.bound, w.pos),
                                            ![t].kw = w.kw, ![t].bound = <<>>,
                                            ![t].decorator = ""]
    /\ UNCHANGED <<classes, decorated, heap>>

\* def meth(self, a, b): return a + b, as what a call of it gives
Outcome(e, r) == [exc |-> e, ret |-> r]
Value(x) == [NoResult EXCEPT !.kind = "value", !.request = x]

meth_body(pos, kw) ==
    IF Len(pos) # 3 \/ kw # {} THEN Outcome("TypeError", NoResult)
    ELSE IF pos[2].t # "int" \/ pos[3].t # "int" THEN Outcome("TypeError", NoResult)
    ELSE Outcome("", Value(Int(pos[2].v + pos[3].v)))

meth(t) ==
    /\ pc[t] = "meth"
    /\ LET f == frame[t]
           r == meth_body(f.pos, f.kw) IN
          /\ Log(t, Event("meth", "", f.pos, f.kw))
          /\ IF r.exc # ""
             THEN RaiseIn(t, r.exc)
             ELSE /\ Goto(t, "returned")
                  /\ frame' = [frame EXCEPT ![t].ret = r.ret]
    /\ UNCHANGED <<classes, decorated, heap>>

-----------------------------------------------------------------------------
(* View *)

\* def __new__(cls, request, *args, **kwargs): instance = cls._new(...)
__new__(t) ==
    /\ pc[t] = "View.__new__"
    /\ LET f == frame[t] IN
          /\ Log(t, Event("View.__new__", "", f.pos, f.kw))
          /\ IF Len(f.pos) < 2
             THEN RaiseIn(t, "TypeError")
             ELSE IF f.pos[1].t # "cls"
             THEN RaiseIn(t, "AttributeError")
             ELSE /\ Goto(t, "View._new")
                  /\ frame' = [frame EXCEPT ![t].cls_arg = f.pos[1].v,
                                            ![t].pos = Tail(f.pos)]
    /\ UNCHANGED <<classes, decorated, heap>>

\* def _new(cls, *args, **kwargs): instance = object.__new__(cls); the
\* isinstance test holds of what object.__new__(cls) returns; __init__ is called
_new(t) ==
    /\ pc[t] = "View._new"
    /\ LET f == frame[t]
           r == object_new(heap, f.cls_arg) IN
          /\ heap' = r.heap
          /\ frame' = [frame EXCEPT ![t].inst = r.obj]
          /\ Goto(t, Lookup(classes, f.cls_arg, "init"))
          /\ Log(t, Event("View._new", "", f.pos, f.kw))
    /\ UNCHANGED <<classes, decorated>>

\* the override refuses an unauthenticated request, and otherwise is View.__init__
Refused(f) == f.pos[1] = Req(0)

\* def __init__(self, request, *args, **kwargs): self.request = request
__init__(t) ==
    /\ pc[t] \in {"View.__init__", "StrictView.__init__"}
    /\ LET f == frame[t] IN
          /\ Log(t, Event("__init__", "", f.pos, f.kw))
          /\ IF f.pos = <<>>
             THEN RaiseIn(t, "TypeError") /\ UNCHANGED heap
             ELSE IF pc[t] = "StrictView.__init__" /\ Refused(f)
             THEN RaiseIn(t, "ValueError") /\ UNCHANGED heap
             ELSE /\ heap' = [heap EXCEPT ![f.inst].request = f.pos[1],
                                          ![f.inst].has = @ \cup {"request"}]
                  /\ Goto(t, "self.args = args")
                  /\ UNCHANGED frame
    /\ UNCHANGED <<classes, decorated>>

\* self.args = args
init_args_with_request(t) ==
    /\ pc[t] = "self.args = args"
    /\ LET f == frame[t] IN
          heap' = [heap EXCEPT ![f.inst].args = f.pos,
                               ![f.inst].has = @ \cup {"args"}]
    /\ Goto(t, "self.kwargs = kwargs")
    /\ UNCHANGED <<classes, decorated, frame, trace>>

init_args(t) ==
    /\ pc[t] = "self.args = args"
    /\ LET f == frame[t] IN
          heap' = [heap EXCEPT ![f.inst].args = Tail(f.pos),
                               ![f.inst].has = @ \cup {"args"}]
    /\ Goto(t, "self.kwargs = kwargs")
    /\ UNCHANGED <<classes, decorated, frame, trace>>

\* what becomes of the instance _new returns: its caller has it, and when that
\* caller is __new__, __new__ calls it and returns the result
after_new_return_instance(op) == "return instance"

after_new_call_instance(op) == "return instance()"

after_new(op) == IF op = "_new" THEN "return instance" ELSE "return instance()"

\* self.kwargs = kwargs; __init__ returns, and _new returns the instance
init_kwargs(t) ==
    /\ pc[t] = "self.kwargs = kwargs"
    /\ LET f == frame[t] IN
          /\ heap' = [heap EXCEPT ![f.inst].kwargs = f.kw,
                                  ![f.inst].has = @ \cup {"kwargs"}]
          /\ IF after_new(f.op) = "return instance"
             THEN /\ Goto(t, "returned")
                  /\ frame' = [frame EXCEPT ![t].ret =
                        [NoResult EXCEPT !.kind = "instance", !.obj = f.inst]]
             ELSE /\ Goto(t, Lookup(classes, heap[f.inst].cls, "call"))
                  /\ UNCHANGED frame
    /\ UNCHANGED <<classes, decorated, trace>>

\* def __call__(self): raise NotImplementedError(...)
__call__(t) ==
    /\ pc[t] = "View.__call__"
    /\ Log(t, Event("__call__", "", <<>>, {}))
    /\ RaiseIn(t, "NotImplementedError")
    /\ UNCHANGED <<classes, decorated, heap>>

\* MyView.__call__(self) reads self.request
call_request(t) ==
    /\ pc[t] = "MyView.__call__"
    /\ Log(t, Event("__call__", "", <<>>, {}))
    /\ LET f == frame[t] IN
          IF "request" \notin heap[f.inst].has
          THEN RaiseIn(t, "AttributeError")
          ELSE /\ Goto(t, "self.args")
               /\ frame' = [frame EXCEPT ![t].ret =
                     [NoResult EXCEPT !.kind = "value",
                                      !.request = heap[f.inst].request]]
    /\ UNCHANGED <<classes, decorated, heap>>

\* ... then self.args
call_args(t) ==
    /\ pc[t] = "self.args"
    /\ LET f == frame[t] IN
          IF "args" \notin heap[f.inst].has
          THEN RaiseIn(t, "AttributeError")
          ELSE /\ Goto(t, "self.kwargs")
               /\ frame' = [frame EXCEPT ![t].ret.args = heap[f.inst].args]
    /\ UNCHANGED <<classes, decorated, heap, trace>>

\* ... then self.kwargs, and returns what it read; every wrapper on the way
\* out returns what func returned, and so does type.__call__
call_kwargs(t) ==
    /\ pc[t] = "self.kwargs"
    /\ LET f == frame[t] IN
          IF "kwargs" \notin heap[f.inst].has
          THEN RaiseIn(t, "AttributeError")
          ELSE /\ Goto(t, "returned")
               /\ frame' = [frame EXCEPT ![t].ret.kwargs = heap[f.inst].kwargs]
    /\ UNCHANGED <<classes, decorated, heap, trace>>

\* the caller has the result or the exception and drops it; an instance no
\* frame refers to any more is collected
Release(t) ==
    /\ pc[t] \in {"returned", "raised"}
    /\ Goto(t, "idle")
    /\ frame' = [frame EXCEPT ![t] = Idle]
    /\ trace' = [trace EXCEPT ![t] = <<>>]
    /\ LET o == frame[t].inst IN
          heap' = IF o # 0 /\ \A u \in Threads \ {t} : frame[u].inst # o
                  THEN [heap EXCEPT ![o] = Free]
                  ELSE heap
    /\ UNCHANGED <<classes, decorated>>

-----------------------------------------------------------------------------

\* the steps of an evaluation under way
Run(t) ==
    \/ call_methodwrapper(t) \/ call_wrapper(t)
    \/ __new__(t) \/ _new(t)
    \/ __init__(t) \/ init_args(t) \/ init_kwargs(t)
    \/ __call__(t) \/ call_request(t) \/ call_args(t) \/ call_kwargs(t)
    \/ Release(t)

\* One thread: it builds classes, calls them, and calls decorated methods.
Next ==
    \/ Decorate(MainThread)
    \/ Invoke(MainThread) \/ InvokeNew(MainThread) \/ InvokeMeth(MainThread)
    \/ meth(MainThread)
    \/ Run(MainThread)

Spec == Init /\ [][Next]_vars

\* Several threads serving requests with the classes of the URLconf: a view, and
\* a view under a decorator.
InitThreads ==
    /\ classes = _decorate(<<View, MyView, StrictView>>, 2, <<"auth_required">>).table
    /\ decorated = {[of |-> 2, decorators |-> <<"auth_required">>, result |-> 4]}
    /\ heap = [o \in Slots |-> Free]
    /\ pc = [t \in Threads |-> "idle"]
    /\ frame = [t \in Threads |-> Idle]
    /\ trace = [t \in Threads |-> <<>>]

NextThreads == \E t \in Threads : Invoke(t) \/ InvokeNew(t) \/ Run(t)

SpecThreads == InitThreads /\ [][NextThreads]_vars

-----------------------------------------------------------------------------
(* Properties *)

Events(t, e) == {i \in 1..Len(trace[t]) : trace[t][i].ev = e}
WrapperEvents(t) == SelectSeq(trace[t], LAMBDA e : e.ev = "wrapper")
WrappersBefore(t, i) == Cardinality({j \in Events(t, "wrapper") : j < i})
CallLabels == {"View.__call__", "MyView.__call__", "self.args", "self.kwargs"}
AllAttributes == {"request", "args", "kwargs"}
Stored(o, pos, kw) ==
    /\ heap[o].has = AllAttributes
    /\ heap[o].request = Head(pos)
    /\ heap[o].args = Tail(pos)
    /\ heap[o].kwargs = kw

\* C1: evaluating V(request, *args, **kwargs) creates an instance of exactly V,
\* calls it, and hands the caller the value __call__ returned (here the
\* attributes __call__ read from that instance), not the instance; an
\* undecorated V with View.__init__ and its own __call__ never raises.
C1_InstantiationReturnsCallResult ==
    \A t \in Threads :
        LET f == frame[t] IN
        f.op = "call" =>
            /\ pc[t] = "returned" =>
                  /\ f.inst # 0
                  /\ heap[f.inst].live
                  /\ heap[f.inst].cls = f.cls
                  /\ Events(t, "__call__") # {}
                  /\ f.ret.kind = "value"
                  /\ f.ret.obj = 0
                  /\ f.ret.request = heap[f.inst].request
                  /\ f.ret.args = heap[f.inst].args
                  /\ f.ret.kwargs = heap[f.inst].kwargs
            /\ ( /\ f.in_fn.wrappers = <<>>
                 /\ Lookup(classes, f.cls, "init") = "View.__init__"
                 /\ Lookup(classes, f.cls, "call") = "MyView.__call__" )
               => pc[t] # "raised"

C1_Witness ==
    \E t \in Threads :
        /\ frame[t].op = "call"
        /\ pc[t] = "returned"
        /\ frame[t].ret.kind = "value"
        /\ frame[t].ret.request = Req(1)
        /\ frame[t].ret.args = <<Int(2)>>
        /\ frame[t].ret.kwargs # {}

C3_NewSidestepsInvocation ==
    \A t \in Threads :
        LET f     == frame[t]
            tr    == trace[t]
            inits == Events(t, "__init__")
        IN
        f.op = "_new" =>
            /\ pc[t] \notin CallLabels \cup {"methodwrapper", "wrapper", "View.__new__"}
            /\ Events(t, "__call__") = {}
            /\ Events(t, "wrapper") = {}
            /\ Events(t, "View.__new__") = {}
            /\ Cardinality(inits) <= 1
            /\ \A i \in inits : tr[i].pos = f.in_pos /\ tr[i].kw = f.in_kw
            /\ pc[t] = "returned" =>
                  /\ f.ret.kind = "instance"
                  /\ f.ret.obj = f.inst
                  /\ f.inst # 0
                  /\ heap[f.inst].live
                  /\ heap[f.inst].cls = f.cls
                  /\ Cardinality(inits) = 1
                  /\ Stored(f.inst, f.in_pos, f.in_kw)
            /\ pc[t] = "raised" =>
                  /\ f.exc = "ValueError"
                  /\ Lookup(classes, f.cls, "init") = "StrictView.__init__"

C3_Witness ==
    \E t \in Threads :
        /\ frame[t].op = "_new"
        /\ pc[t] = "returned"
        /\ Lookup(classes, frame[t].cls, "call") = "View.__call__"
        /\ Lookup(classes, frame[t].cls, "new").wrappers # <<>>
        /\ frame[t].ret.kind = "instance"
        /\ heap[frame[t].ret.obj].cls = frame[t].cls

\* C4: the class V._decorate(d1, ..., dn) returned enters the wrappers in the
\* order d1, ..., dn (then those V already had), the first with the caller's
\* (request, *args, **kwargs) and each next one with what the one before passed
\* on, never a leading class or instance; View.__new__, _new, __init__ and
\* __call__ run only after the last wrapper called through.
C4_DecoratorsOutermostFirst ==
    \A t \in Threads : \A r \in decorated :
        LET f     == frame[t]
            tr    == trace[t]
            chain == r.decorators \o Lookup(classes, r.of, "new").wrappers
            ws    == WrapperEvents(t)
        IN
        (f.op = "call" /\ f.cls = r.result) =>
            /\ Len(ws) <= Len(chain)
            /\ \A i \in 1..Len(ws) : ws[i].name = chain[i]
            /\ Len(ws) >= 1 => ws[1].pos = f.in_pos /\ ws[1].kw = f.in_kw
            /\ \A i \in 2..Len(ws) :
                  LET w == wrapper(ws[i - 1].name, ws[i - 1].pos, ws[i - 1].kw) IN
                  w.exc = "" /\ ws[i].pos = w.pos /\ ws[i].kw = w.kw
            /\ \A i \in 1..Len(ws) :
                  ws[i].pos # <<>> => ws[i].pos[1].t \notin {"cls", "obj"}
            /\ \A i \in 1..Len(tr) :
                  tr[i].ev \in {"View.__new__", "View._new", "__init__", "__call__"}
                      => WrappersBefore(t, i) = Len(chain)
            /\ pc[t] \in CallLabels \cup {"View.__new__", "View._new", "returned"}
                  => Len(ws) = Len(chain)

C4_Witness ==
    \E t \in Threads : \E r \in decorated :
        /\ frame[t].op = "call"
        /\ frame[t].cls = r.result
        /\ r.decorators = <<"auth_required", "decorator">>
        /\ pc[t] = "returned"
        /\ Len(WrapperEvents(t)) = 2

\* @d1 ... @dn stacked on the function f(*a, **k) = m(self, *a, **k), for m = meth
RECURSIVE decorated_function(_, _, _, _)
decorated_function(ds, self, pos, kw) ==
    IF ds = <<>> THEN meth_body(<<self>> \o pos, kw)
    ELSE LET w == wrapper(ds[1], pos, kw) IN
         IF w.exc # "" THEN Outcome(w.exc, NoResult)
         ELSE decorated_function(Tail(ds), self, w.pos, w.kw)

\* C5: method_decorator(d)(m)(self, *args, **kwargs) ends as d(f)(*args,
\* **kwargs) does for f(*a, **k) = m(self, *a, **k): the wrapper d built gets
\* the arguments without self, the method gets self back in first position,
\* and a decorated meth returns or raises what the decorated function does.
C5_MethodDecoratorAdapts ==
    \A t \in Threads :
        LET f    == frame[t]
            tr   == trace[t]
            self == IF f.op = "meth" THEN Obj(0) ELSE Cls(f.cls)
        IN
        f.op \in {"meth", "call"} =>
            /\ \A i \in Events(t, "methodwrapper") :
                  /\ tr[i].pos # <<>>
                  /\ tr[i].pos[1] = self
                  /\ i < Len(tr) =>
                        /\ tr[i + 1].ev = "wrapper"
                        /\ tr[i + 1].name = tr[i].name
                        /\ tr[i + 1].pos = Tail(tr[i].pos)
                        /\ tr[i + 1].kw = tr[i].kw
            /\ \A i \in Events(t, "wrapper") :
                  /\ i > 1
                  /\ tr[i - 1].ev = "methodwrapper"
                  /\ \A k \in 1..Len(tr[i].pos) : tr[i].pos[k] # self
                  /\ LET w == wrapper(tr[i].name, tr[i].pos, tr[i].kw) IN
                     (i < Len(tr) /\ w.exc = "") =>
                        /\ tr[i + 1].pos = <<self>> \o w.pos
                        /\ tr[i + 1].kw = w.kw
            /\ \A i \in Events(t, "meth") \cup Events(t, "View.__new__") :
                  tr[i].pos # <<>> /\ tr[i].pos[1] = self
            /\ (f.op = "meth" /\ pc[t] \in {"returned", "raised"}) =>
                  Outcome(f.exc, f.ret) =
                      decorated_function(f.in_fn.wrappers, Obj(0), f.in_pos, f.in_kw)

C5_Witness ==
    \E t \in Threads :
        /\ frame[t].op = "meth"
        /\ pc[t] = "returned"
        /\ frame[t].in_fn.wrappers = <<"mult_2">>
        /\ frame[t].in_pos = <<Int(1), Int(2)>>
        /\ frame[t].ret = Value(Int(6))

\* C6: with several invocations under way at once, each has an instance of its
\* own, what its __call__ reads from self is what that same invocation was
\* given, and a step of one thread changes no class and no instance that
\* another thread holds.
OwnInstance ==
    \A t \in Threads :
        LET f == frame[t] IN
        /\ \A u \in Threads \ {t} : f.inst # 0 => frame[u].inst # f.inst
        /\ f.inst # 0 => heap[f.inst].live /\ heap[f.inst].cls = f.cls
        /\ (f.op = "call" /\ pc[t] \in CallLabels \cup {"returned"}) =>
              Stored(f.inst, f.in_pos, f.in_kw)
        /\ (f.op = "call" /\ pc[t] \in {"self.args", "self.kwargs", "returned"}) =>
              f.ret.request = Head(f.in_pos)
        /\ (f.op = "call" /\ pc[t] \in {"self.kwargs", "returned"}) =>
              f.ret.args = Tail(f.in_pos)
        /\ (f.op = "call" /\ pc[t] = "returned") =>
              f.ret.kwargs = f.in_kw

NoForeignWrite ==
    /\ classes' = classes
    /\ \A t \in Threads :
          pc'[t] # pc[t] =>
              \A u \in Threads \ {t} :
                  /\ frame'[u] = frame[u]
                  /\ frame[u].inst # 0 => heap'[frame[u].inst] = heap[frame[u].inst]

C6_ThreadSafe == []OwnInstance /\ [][NoForeignWrite]_vars

C6_Witness ==
    /\ pc[1] = "self.args"
    /\ pc[2] = "self.kwargs = kwargs"
    /\ frame[1].op = "call"
    /\ frame[2].op = "call"
    /\ frame[1].cls = frame[2].cls
    /\ frame[1].in_pos # frame[2].in_pos
    /\ frame[1].inst # frame[2].inst

====
